---- MODULE Spec2Model ----
(***************************************************************************)
(* Pattern combinators of Mach7 (patterns/combinators.hpp): conjunction,   *)
(* disjunction and negation of patterns, their accepted_type_for type      *)
(* functions, and the global operators &&, || and ! that build them.       *)
(*                                                                         *)
(* A pattern expression is built on an operand stack (phase "build"),      *)
(* becomes the pattern `pat` (phase "ready"), may have its accepted type   *)
(* queried for a subject type, and is applied to subjects (phase "eval"),  *)
(* one operator() frame at a time, until the outermost call returns        *)
(* (phase "done").  A program that does not compile is in phase            *)
(* "rejected" and never runs.                                              *)
(***************************************************************************)
EXTENDS Integers, Sequences, FiniteSets, TLC

VARIABLES phase, ops, last, pat, accepted, subject, stack, ret, log, res, prev

vars == <<phase, ops, last, pat, accepted, subject, stack, ret, log, res, prev>>

\* ---------------------------------------------------------------- bounds
\* Largest number of nodes (leaves and combinators) of a pattern expression.
MaxSize == 5
\* Largest number of operands waiting on the operand stack.
MaxOperands == 3

\* ------------------------------------------------- inputs of the model
\* Subjects the patterns are applied to.
Subjects == {-4, -3, 3, 4}
\* Static types of a subject.
SubjectTypes == {"int", "long"}
\* Primitive patterns supplied from outside the combinators.
PrimitiveNames == {"is_even", "is_positive", "as_int"}
\* Plain values that may be operands of the composition operators.
PlainValues == {4}

None == [kind |-> "none"]

\* A primitive pattern.
Prim(name) == [kind |-> "prim", name |-> name]
\* A plain (non-pattern) value.
Plain(v) == [kind |-> "plain", v |-> v]
\* The equality pattern on a value (mch::value<T>).
value(v) == [kind |-> "value", v |-> v]

Leaves == {Prim(n) : n \in PrimitiveNames} \cup {Plain(v) : v \in PlainValues}

\* ------------------------------------------------------- combinator types
\* is_pattern_<conjunction<..>>, is_pattern_<disjunction<..>>,
\* is_pattern_<negation<..>>: value = true.
is_pattern_(p) == p.kind \in {"conj", "disj", "neg"}

\* is_pattern<P>: the combinators, and the patterns of primitive.hpp.
is_pattern(p) == is_pattern_(p) \/ p.kind \in {"prim", "value"}

either_is_pattern(p1, p2) == is_pattern(p1) \/ is_pattern(p2)

\* mch::filter: a pattern is passed on as it is, a value becomes value<T>.
filter(p) == IF is_pattern(p) THEN p ELSE value(p.v)

CompileError == [kind |-> "error"]

\* conjunction<P1,P2>(p1, p2), with the static_asserts on P1 and P2.
conjunction(p1, p2) ==
    IF is_pattern(p1) /\ is_pattern(p2)
    THEN [kind |-> "conj", m_p1 |-> p1, m_p2 |-> p2]
    ELSE CompileError

\* disjunction<P1,P2>(p1, p2), with the static_asserts on P1 and P2.
disjunction(p1, p2) ==
    IF is_pattern(p1) /\ is_pattern(p2)
    THEN [kind |-> "disj", m_p1 |-> p1, m_p2 |-> p2]
    ELSE CompileError

\* negation<P1>(p1), with the static_assert on P1.
negation(p1) ==
    IF is_pattern(p1)
    THEN [kind |-> "neg", m_p1 |-> p1]
    ELSE CompileError

\* ------------------------------------------------- composition operators
\* An operator&& enabled only when both operands are patterns.
OperatorAnd_both(p1, p2) ==
    IF is_pattern(p1) /\ is_pattern(p2)
    THEN conjunction(filter(p1), filter(p2))
    ELSE CompileError

\* An operator&& that hands its operands over in the other order.
OperatorAnd_swapped(p1, p2) ==
    IF either_is_pattern(p1, p2)
    THEN conjunction(filter(p2), filter(p1))
    ELSE CompileError

\* operator&&(p1, p2): enabled when either operand is a pattern.
OperatorAnd(p1, p2) ==
    IF either_is_pattern(p1, p2)
    THEN conjunction(filter(p1), filter(p2))
    ELSE CompileError

\* operator||(p1, p2): enabled when either operand is a pattern.
OperatorOr(p1, p2) ==
    IF either_is_pattern(p1, p2)
    THEN disjunction(filter(p1), filter(p2))
    ELSE CompileError

\* operator!(p1): enabled when the operand is a pattern.
OperatorNot(p1) ==
    IF is_pattern(p1)
    THEN negation(filter(p1))
    ELSE CompileError

\* ------------------------------------------------------------ tree helpers
RECURSIVE Size(_)
Size(p) ==
    IF p.kind \in {"conj", "disj"} THEN 1 + Size(p.m_p1) + Size(p.m_p2)
    ELSE IF p.kind = "neg" THEN 1 + Size(p.m_p1)
    ELSE 1

RECURSIVE SizeAll(_)
SizeAll(s) == IF s = <<>> THEN 0 ELSE Size(Head(s)) + SizeAll(Tail(s))

\* The member sub-pattern reached from p along a path of member indices
\* (1 for m_p1, 2 for m_p2).
RECURSIVE Sub(_, _)
Sub(p, path) ==
    IF path = <<>> THEN p
    ELSE Sub(IF Head(path) = 1 THEN p.m_p1 ELSE p.m_p2, Tail(path))

\* The paths of all nodes of p.
RECURSIVE Paths(_)
Paths(p) ==
    IF p.kind \in {"conj", "disj"}
    THEN {<<>>} \cup {<<1>> \o q : q \in Paths(p.m_p1)}
                \cup {<<2>> \o q : q \in Paths(p.m_p2)}
    ELSE IF p.kind = "neg"
    THEN {<<>>} \cup {<<1>> \o q : q \in Paths(p.m_p1)}
    ELSE {<<>>}

\* ------------------------------------------------------ primitive patterns
\* operator() of the primitive patterns.
PrimMatches(p, s) ==
    IF p.kind = "value" THEN s = p.v
    ELSE IF p.name = "is_even" THEN s % 2 = 0
    ELSE IF p.name = "is_positive" THEN s > 0
    ELSE s \in {-3, 3}

\* accepted_type_for<S>::type of the primitive patterns: is_even and
\* is_positive accept the subject type, as_int and value<int> accept int.
PrimAcceptedTypeFor(p, S) ==
    IF p.kind = "value" THEN "int"
    ELSE IF p.name = "as_int" THEN "int"
    ELSE S

\* ------------------------------------------------------- accepted types
TypeError == "error"

\* A conjunction whose accepted_type_for lacks the static_assert.
conjunction_accepted_type_for_unchecked(t1, t2) ==
    IF t1 = TypeError \/ t2 = TypeError THEN TypeError
    ELSE t1

\* conjunction::accepted_type_for<S>, given the accepted types t1 of P1 and
\* t2 of P2 for S: the static_assert on is_same, then P1's type.
conjunction_accepted_type_for(t1, t2) ==
    IF t1 = TypeError \/ t2 = TypeError THEN TypeError
    ELSE IF t1 # t2 THEN TypeError
    ELSE t1

\* disjunction::accepted_type_for<S>, given the accepted types t1 of P1 and
\* t2 of P2 for S: the static_assert on is_same, then P1's type.
disjunction_accepted_type_for(t1, t2) ==
    IF t1 = TypeError \/ t2 = TypeError THEN TypeError
    ELSE IF t1 # t2 THEN TypeError
    ELSE t1

\* negation::accepted_type_for<S>, given the accepted type t1 of P1 for S:
\* derives from P1::accepted_type_for<S> and declares its own `type` as S.
negation_accepted_type_for(t1, S) ==
    IF t1 = TypeError THEN TypeError
    ELSE S

\* P::accepted_type_for<S>::type of a pattern expression.
RECURSIVE accepted_type_for(_, _)
accepted_type_for(p, S) ==
    IF p.kind = "conj"
    THEN conjunction_accepted_type_for(accepted_type_for(p.m_p1, S),
                                       accepted_type_for(p.m_p2, S))
    ELSE IF p.kind = "disj"
    THEN disjunction_accepted_type_for(accepted_type_for(p.m_p1, S),
                                       accepted_type_for(p.m_p2, S))
    ELSE IF p.kind = "neg"
    THEN negation_accepted_type_for(accepted_type_for(p.m_p1, S), S)
    ELSE PrimAcceptedTypeFor(p, S)

\* ------------------------------------------------------------ operator()
\* What a frame of an operator() does next, given where it stands (pc) and
\* the value r the callee returned last: call a member pattern and go on at
\* `next`, or return `val`.
CallMember(i, next) == [act |-> "call", child |-> i, next |-> next, val |-> FALSE]
Return(v) == [act |-> "return", child |-> 0, next |-> "end", val |-> v]

\* A conjunction that returns what m_p1 returned and leaves m_p2 out.
conjunction_call_first_only(pc, r) ==
    IF pc = "start" THEN CallMember(1, "after1")
    ELSE Return(r)

\* A conjunction written with & : both members are always called.
conjunction_call_eager(pc, r) ==
    IF pc = "start" THEN CallMember(1, "after1")
    ELSE IF pc = "after1"
    THEN (IF r THEN CallMember(2, "after2") ELSE CallMember(2, "after2f"))
    ELSE IF pc = "after2f" THEN Return(FALSE)
    ELSE Return(r)

\* conjunction::operator(): return m_p1(subject) && m_p2(subject).
conjunction_call(pc, r) ==
    IF pc = "start" THEN CallMember(1, "after1")
    ELSE IF pc = "after1" THEN (IF r THEN CallMember(2, "after2") ELSE Return(FALSE))
    ELSE Return(r)

\* A disjunction that returns what m_p1 returned and leaves m_p2 out.
disjunction_call_first_only(pc, r) ==
    IF pc = "start" THEN CallMember(1, "after1")
    ELSE Return(r)

\* A disjunction written with | : both members are always called.
disjunction_call_eager(pc, r) ==
    IF pc = "start" THEN CallMember(1, "after1")
    ELSE IF pc = "after1"
    THEN (IF r THEN CallMember(2, "after2t") ELSE CallMember(2, "after2"))
    ELSE IF pc = "after2t" THEN Return(TRUE)
    ELSE Return(r)

\* A disjunction that calls m_p1 once more when both members returned false.
disjunction_call_again(pc, r) ==
    IF pc = "start" THEN CallMember(1, "after1")
    ELSE IF pc = "after1" THEN (IF r THEN Return(TRUE) ELSE CallMember(2, "after2"))
    ELSE IF pc = "after2" THEN (IF r THEN Return(TRUE) ELSE CallMember(1, "after3"))
    ELSE Return(r)

\* disjunction::operator(): return m_p1(subject) || m_p2(subject).
disjunction_call(pc, r) ==
    IF pc = "start" THEN CallMember(1, "after1")
    ELSE IF pc = "after1" THEN (IF r THEN Return(TRUE) ELSE CallMember(2, "after2"))
    ELSE Return(r)

\* A negation that returns what m_p1 returned.
negation_call_plain(pc, r) ==
    IF pc = "start" THEN CallMember(1, "after1")
    ELSE Return(r)

\* negation::operator(): return !m_p1(subject).
negation_call(pc, r) ==
    IF pc = "start" THEN CallMember(1, "after1")
    ELSE Return(~r)

\* The value p(subject) of a pattern expression whose primitive patterns are
\* predicates: the value of the C++ expression each operator() returns.
RECURSIVE matches(_, _)
matches(p, s) ==
    IF p.kind = "conj" THEN (IF matches(p.m_p1, s) THEN matches(p.m_p2, s) ELSE FALSE)
    ELSE IF p.kind = "disj" THEN (IF matches(p.m_p1, s) THEN TRUE ELSE matches(p.m_p2, s))
    ELSE IF p.kind = "neg" THEN ~matches(p.m_p1, s)
    ELSE PrimMatches(p, s)

\* -------------------------------------------------------------- the state
Init ==
    /\ phase = "build"
    /\ ops = <<>>
    /\ last = None
    /\ pat = None
    /\ accepted = None
    /\ subject = 0
    /\ stack = <<>>
    /\ ret = FALSE
    /\ log = <<>>
    /\ res = <<>>
    /\ prev = None

NotRunning == UNCHANGED <<pat, accepted, subject, stack, ret, log, res, prev>>

\* An operand (a primitive pattern or a plain value) is written down.
PushOperand ==
    /\ phase = "build"
    /\ Len(ops) < MaxOperands
    /\ SizeAll(ops) + 1 + Len(ops) <= MaxSize
    /\ \E x \in Leaves : ops' = <<x>> \o ops
    /\ last' = None
    /\ UNCHANGED phase
    /\ NotRunning

\* The outcome of building a combinator: the combinator takes the place of
\* its operands, or the program does not compile.
Built(c, rest, what) ==
    /\ last' = what
    /\ IF c = CompileError
       THEN phase' = "rejected" /\ ops' = <<>>
       ELSE phase' = "build" /\ ops' = <<c>> \o rest
    /\ NotRunning

\* p1 && p2 on the two topmost operands (ops[2] was written first).
ApplyAnd ==
    /\ phase = "build"
    /\ Len(ops) >= 2
    /\ Built(OperatorAnd(ops[2], ops[1]), SubSeq(ops, 3, Len(ops)),
             [kind |-> "and", p1 |-> ops[2], p2 |-> ops[1]])

\* p1 || p2 on the two topmost operands.
ApplyOr ==
    /\ phase = "build"
    /\ Len(ops) >= 2
    /\ Built(OperatorOr(ops[2], ops[1]), SubSeq(ops, 3, Len(ops)),
             [kind |-> "or", p1 |-> ops[2], p2 |-> ops[1]])

\* !p1 on the topmost operand.
ApplyNot ==
    /\ phase = "build"
    /\ Len(ops) >= 1
    /\ SizeAll(ops) + Len(ops) <= MaxSize
    /\ Built(OperatorNot(ops[1]), Tail(ops),
             [kind |-> "not", p1 |-> ops[1], p2 |-> None])

\* conjunction<P1,P2>(p1, p2) written out on the two topmost operands.
ConstructConjunction ==
    /\ phase = "build"
    /\ Len(ops) >= 2
    /\ Built(conjunction(ops[2], ops[1]), SubSeq(ops, 3, Len(ops)),
             [kind |-> "conjunction", p1 |-> ops[2], p2 |-> ops[1]])

\* disjunction<P1,P2>(p1, p2) written out on the two topmost operands.
ConstructDisjunction ==
    /\ phase = "build"
    /\ Len(ops) >= 2
    /\ Built(disjunction(ops[2], ops[1]), SubSeq(ops, 3, Len(ops)),
             [kind |-> "disjunction", p1 |-> ops[2], p2 |-> ops[1]])

\* negation<P1>(p1) written out on the topmost operand.
ConstructNegation ==
    /\ phase = "build"
    /\ Len(ops) >= 1
    /\ SizeAll(ops) + Len(ops) <= MaxSize
    /\ Built(negation(ops[1]), Tail(ops),
             [kind |-> "negation", p1 |-> ops[1], p2 |-> None])

\* The pattern expression is complete.
Finish ==
    /\ phase = "build"
    /\ Len(ops) = 1
    /\ is_pattern(ops[1])
    /\ pat' = ops[1]
    /\ ops' = <<>>
    /\ last' = None
    /\ phase' = "ready"
    /\ UNCHANGED <<accepted, subject, stack, ret, log, res, prev>>

\* The accepted type of the pattern for a subject type S is asked for
\* (pat's accepted_type_for<S>::type is instantiated).
QueryAcceptedType ==
    /\ phase = "ready"
    /\ accepted = None
    /\ prev = None
    /\ \E S \in SubjectTypes :
         LET t == accepted_type_for(pat, S) IN
           /\ accepted' = [kind |-> "type", S |-> S, type |-> t]
           /\ phase' = IF t = TypeError THEN "rejected" ELSE "ready"
    /\ UNCHANGED <<ops, last, pat, subject, stack, ret, log, res, prev>>

\* pat(subject) is called.
CallMatches ==
    /\ phase = "ready"
    /\ \E s \in Subjects :
         /\ subject' = s
         /\ prev' = IF prev # None /\ prev.subject = s THEN prev ELSE None
    /\ stack' = << [path |-> << >>, pc |-> "start"] >>
    /\ ret' = FALSE
    /\ log' = <<>>
    /\ res' = <<>>
    /\ phase' = "eval"
    /\ UNCHANGED <<ops, last, pat, accepted>>

\* The topmost frame does what d says.
Do(d) ==
    LET f == Head(stack) IN
    /\ log' = IF f.pc = "start" THEN Append(log, f.path) ELSE log
    /\ IF d.act = "call"
       THEN /\ stack' = <<[path |-> Append(f.path, d.child), pc |-> "start"],
                          [path |-> f.path, pc |-> d.next]>> \o Tail(stack)
            /\ UNCHANGED <<ret, res, phase>>
       ELSE /\ stack' = Tail(stack)
            /\ ret' = d.val
            /\ res' = (f.path :> d.val) @@ res
            /\ phase' = IF Tail(stack) = <<>> THEN "done" ELSE "eval"
    /\ UNCHANGED <<ops, last, pat, accepted, subject, prev>>

Top == Sub(pat, Head(stack).path)

StepConjunction ==
    /\ phase = "eval"
    /\ Top.kind = "conj"
    /\ Do(conjunction_call(Head(stack).pc, ret))

StepDisjunction ==
    /\ phase = "eval"
    /\ Top.kind = "disj"
    /\ Do(disjunction_call(Head(stack).pc, ret))

StepNegation ==
    /\ phase = "eval"
    /\ Top.kind = "neg"
    /\ Do(negation_call(Head(stack).pc, ret))

StepPrimitive ==
    /\ phase = "eval"
    /\ Top.kind \in {"prim", "value"}
    /\ Do(Return(PrimMatches(Top, subject)))

\* The caller takes the result; the pattern may be applied again.
TakeResult ==
    /\ phase = "done"
    /\ prev' = [kind |-> "result", subject |-> subject, value |-> ret]
    /\ phase' = "ready"
    /\ log' = <<>>
    /\ res' = <<>>
    /\ ret' = FALSE
    /\ subject' = 0
    /\ UNCHANGED <<ops, last, pat, accepted, stack>>

Step == StepConjunction \/ StepDisjunction \/ StepNegation \/ StepPrimitive

Next ==
    \/ PushOperand
    \/ ApplyAnd
    \/ ApplyOr
    \/ ApplyNot
    \/ ConstructConjunction
    \/ ConstructDisjunction
    \/ ConstructNegation
    \/ Finish
    \/ QueryAcceptedType
    \/ CallMatches
    \/ StepConjunction
    \/ StepDisjunction
    \/ StepNegation
    \/ StepPrimitive
    \/ TakeResult

Spec == Init /\ [][Next]_vars

\* matches runs to completion once called: the frames of a call are never
\* suspended.
FairSpec == Spec /\ WF_vars(Step)

\* ------------------------------------------------------------- properties
Running == phase \in {"eval", "done"}

\* The nodes of pat whose operator() has returned in the current call.
Returned == DOMAIN res

\* How often the operator() of node q was entered in the current call.
Entered(q) == Cardinality({i \in DOMAIN log : log[i] = q})

\* The place of the (first) entry of node q in the current call.
EntryOf(q) == CHOOSE i \in DOMAIN log : log[i] = q

IsEven == Prim("is_even")
IsPositive == Prim("is_positive")

\* C1: whenever the operator() of a conjunction node (at any depth of the
\* expression) has returned, it returned a.matches(s) AND b.matches(s) for its
\* members a and b; conjunction(is_even, is_positive) gives true for 4 and
\* false for -4 and 3.
C1_ConjunctionIsAnd ==
    Running =>
      /\ \A q \in Returned :
           Sub(pat, q).kind = "conj" =>
             res[q] = (matches(Sub(pat, q).m_p1, subject)
                         /\ matches(Sub(pat, q).m_p2, subject))
      /\ (phase = "done" /\ pat.kind = "conj" /\ pat.m_p1 = IsEven
            /\ pat.m_p2 = IsPositive)
           => /\ subject = 4 => ret = TRUE
              /\ subject = -4 => ret = FALSE
              /\ subject = 3 => ret = FALSE

C1_Witness ==
    /\ phase = "done"
    /\ pat.kind = "conj"
    /\ pat.m_p2.kind = "disj"
    /\ ret = TRUE

\* C2: whenever the operator() of a disjunction node (at any depth) has
\* returned, it returned a.matches(s) OR b.matches(s) for its members a and b;
\* disjunction(is_even, is_positive) gives false for -3 and true for -4.
C2_DisjunctionIsOr ==
    Running =>
      /\ \A q \in Returned :
           Sub(pat, q).kind = "disj" =>
             res[q] = (matches(Sub(pat, q).m_p1, subject)
                         \/ matches(Sub(pat, q).m_p2, subject))
      /\ (phase = "done" /\ pat.kind = "disj" /\ pat.m_p1 = IsEven
            /\ pat.m_p2 = IsPositive)
           => /\ subject = -3 => ret = FALSE
              /\ subject = -4 => ret = TRUE

C2_Witness ==
    /\ phase = "done"
    /\ pat.kind = "disj"
    /\ pat.m_p1.kind = "conj"
    /\ <<1>> \in Returned /\ res[<<1>>] = FALSE
    /\ ret = TRUE

\* C3: whenever the operator() of a negation node has returned, it returned
\* the complement of what its member returned, which is the complement of
\* a.matches(s); a negation of a negation of a returns a.matches(s).
C3_NegationIsComplement ==
    Running =>
      \A q \in Returned :
        Sub(pat, q).kind = "neg" =>
          /\ Append(q, 1) \in Returned
          /\ res[q] = ~res[Append(q, 1)]
          /\ res[q] = ~matches(Sub(pat, q).m_p1, subject)
          /\ Sub(pat, q).m_p1.kind = "neg" =>
               res[q] = matches(Sub(pat, q).m_p1.m_p1, subject)

C3_Witness ==
    /\ phase = "done"
    /\ pat.kind = "neg"
    /\ pat.m_p1.kind = "neg"
    /\ pat.m_p1.m_p1.kind = "conj"
    /\ ret = TRUE

\* C4: in a call of a conjunction node q, m_p1 is entered before m_p2 and
\* never twice; m_p2 is entered at most once and only after m_p1 returned
\* true; when q has returned, m_p1 was entered exactly once, and m_p2 was not
\* entered if m_p1 returned false.
C4_ConjunctionShortCircuit ==
    Running =>
      \A q \in Paths(pat) :
        Sub(pat, q).kind = "conj" =>
          LET a == Append(q, 1)
              b == Append(q, 2) IN
          /\ Entered(a) <= 1
          /\ Entered(b) <= 1
          /\ Entered(a) = 1 => (Entered(q) = 1 /\ EntryOf(q) < EntryOf(a))
          /\ Entered(b) = 1 =>
               /\ Entered(a) = 1 /\ EntryOf(a) < EntryOf(b)
               /\ a \in Returned /\ res[a] = TRUE
          /\ q \in Returned =>
               /\ Entered(a) = 1 /\ a \in Returned
               /\ res[a] = FALSE => Entered(b) = 0

C4_Witness ==
    /\ phase = "done"
    /\ pat.kind = "disj"
    /\ pat.m_p2.kind = "conj"
    /\ Entered(<<2>>) = 1
    /\ res[<<2, 1>>] = FALSE
    /\ Entered(<<2, 2>>) = 0

\* C5: in a call of a disjunction node q, m_p1 is entered before m_p2 and
\* never twice; m_p2 is entered at most once and only after m_p1 returned
\* false; when q has returned, m_p1 was entered exactly once, and m_p2 was not
\* entered if m_p1 returned true.
C5_DisjunctionShortCircuit ==
    Running =>
      \A q \in Paths(pat) :
        Sub(pat, q).kind = "disj" =>
          LET a == Append(q, 1)
              b == Append(q, 2) IN
          /\ Entered(a) <= 1
          /\ Entered(b) <= 1
          /\ Entered(a) = 1 => (Entered(q) = 1 /\ EntryOf(q) < EntryOf(a))
          /\ Entered(b) = 1 =>
               /\ Entered(a) = 1 /\ EntryOf(a) < EntryOf(b)
               /\ a \in Returned /\ res[a] = FALSE
          /\ q \in Returned =>
               /\ Entered(a) = 1 /\ a \in Returned
               /\ res[a] = TRUE => Entered(b) = 0

C5_Witness ==
    /\ phase = "done"
    /\ pat.kind = "conj"
    /\ pat.m_p2.kind = "disj"
    /\ Entered(<<2>>) = 1
    /\ res[<<2, 1>>] = TRUE
    /\ Entered(<<2, 2>>) = 0

\* A conjunction or disjunction node of p whose members accept different
\* types for the subject type S.
Mismatched(p, S) ==
    \E q \in Paths(p) :
      /\ Sub(p, q).kind \in {"conj", "disj"}
      /\ accepted_type_for(Sub(p, q).m_p1, S) # accepted_type_for(Sub(p, q).m_p2, S)

\* C6 as stated: no conjunction or disjunction whose members accept
\* different types for some subject type is ever applied to a subject.
C6_RejectedAtConstruction ==
    Running => ~ \E S \in SubjectTypes : Mismatched(pat, S)

\* C6, amended: the mismatch is found where the accepted type is asked for:
\* a query for S fails exactly when some conjunction or disjunction of the
\* expression has members accepting different types for S, a failed query
\* rejects the program, and a pattern that runs after a query for S has no
\* such node for S.
C6_RejectedAtQuery ==
    accepted # None =>
      /\ (accepted.type = TypeError) <=> Mismatched(pat, accepted.S)
      /\ (accepted.type = TypeError) <=> (phase = "rejected")
      /\ Running => ~Mismatched(pat, accepted.S)

C6_Witness ==
    /\ phase = "rejected"
    /\ accepted # None
    /\ accepted.type = TypeError
    /\ pat.kind = "neg"
    /\ pat.m_p1.kind = "conj"
    /\ Mismatched(pat, "long") /\ ~Mismatched(pat, "int")

\* C7: the accepted type of a negation for a subject type S, and of a
\* conjunction or disjunction with agreeing members, is the accepted type of
\* its member m_p1 for S.
C7_ForwardsAcceptedType ==
    (accepted # None /\ accepted.type # TypeError /\ is_pattern_(pat)) =>
      accepted.type = accepted_type_for(pat.m_p1, accepted.S)

Normalized(x) == IF x.kind = "plain" THEN value(x.v) ELSE x

\* C9: the operators build the conjunction, disjunction or negation of the
\* normalized operands in the order written; (p && v)(s) is p(s) and s = v,
\* (v || p)(s) is s = v or p(s).
C9_OperatorsNormalizeInOrder ==
    /\ (last.kind = "and" /\ phase = "build") =>
         ops[1] = [kind |-> "conj", m_p1 |-> Normalized(last.p1),
                   m_p2 |-> Normalized(last.p2)]
    /\ (last.kind = "or" /\ phase = "build") =>
         ops[1] = [kind |-> "disj", m_p1 |-> Normalized(last.p1),
                   m_p2 |-> Normalized(last.p2)]
    /\ (last.kind = "not" /\ phase = "build") =>
         ops[1] = [kind |-> "neg", m_p1 |-> last.p1]
    /\ (phase = "done" /\ pat.kind = "conj" /\ pat.m_p2.kind = "value") =>
         ret = (matches(pat.m_p1, subject) /\ subject = pat.m_p2.v)
    /\ (phase = "done" /\ pat.kind = "disj" /\ pat.m_p1.kind = "value") =>
         ret = (subject = pat.m_p1.v \/ matches(pat.m_p2, subject))

C9_Witness ==
    /\ last.kind = "and"
    /\ last.p1.kind = "neg"
    /\ last.p2.kind = "plain"
    /\ phase = "build"
    /\ ops[1].m_p2 = value(last.p2.v)

\* C10: a call of matches on a built pattern ends, with a boolean and in no
\* other way; it enters each node at most once, leaves the pattern as it was,
\* and on the subject of the call before it returns what that call returned.
C10_MatchesTerminatesPure ==
    /\ [](Running => \A q \in Paths(pat) : Entered(q) <= 1)
    /\ [](Running => \A i \in DOMAIN log : log[i] \in Paths(pat))
    /\ [](phase = "done" =>
            /\ ret \in BOOLEAN
            /\ stack = <<>>
            /\ prev # None => (prev.subject = subject /\ prev.value = ret))
    /\ [][Running => (pat' = pat /\ phase' \in {"eval", "done", "ready"})]_vars
    /\ (phase = "eval") ~> (phase = "done")

C10_Witness ==
    /\ phase = "done"
    /\ prev # None
    /\ pat.kind = "disj"
    /\ pat.m_p1.kind = "conj"
    /\ Len(log) = 5
    /\ ret = FALSE

====
